---- MODULE Spec2Model ----
(***************************************************************************)
(* The Environment class of python-api/environment.py: a Session that owns *)
(* one instance of the emulation backend through an opaque cffi pointer.   *)
(*                                                                         *)
(* The Python class is translated statement by statement.  The backend     *)
(* (the shared library behind `lib`) is not part of python-api; its        *)
(* operations are modelled from section 6 of the specification.            *)
(***************************************************************************)
EXTENDS Integers, FiniteSets, Sequences, TLC

(*************************** program constants *****************************)
WIDTH == 160
HEIGHT == 144

\* the Key enum of the cdef
Keys == {"Up", "Down", "Left", "Right", "B", "A", "Select", "Start"}

\* ffi.NULL and Python's None, the two non-handle values self.__obj takes
NULL == "NULL"
None == "None"

\* the exception __init__ raises (there is one raise statement in the class)
InitializationError == "Exception: failed to initialize environment"
\* what cffi raises when an argument declared `Environment *` is not cdata
TypeError == "TypeError: initializer for ctype 'Environment *'"

(******************************** bounds ***********************************)
\* one Session: run_frame calls accepted per episode, set_key_state calls
\* accepted in one behaviour
MaxFrames == 2
MaxKeyOps == 2
\* two Sessions side by side: the same two limits
PairFrames == 1
PairKeyOps == 1

\* the Environment objects the caller creates, and the addresses the backend
\* can return for an instance (an address is reused after it is freed)
Sessions == {"envA", "envB"}
Solo == {"envA"}
Handles == {"0x10", "0x20"}
\* ROM paths handed to the constructor; the backend can parse only the first
RomPaths == {"tetris.gb", "missing.gb"}
ValidRoms == {"tetris.gb"}

\* the status codes of the backend's start_episode (int32)
StatusCodes == {0, -1}

\* A uint32 word is kept as its bit 31 and its low 31 bits (its value is
\* top * 2^31 + low); 0xFFFFFFFF is U32(1, 2147483647).
U32(top, low) == [top |-> top, low |-> low]

\* the pixels of the 160x144 buffer the model tracks (first and last), and
\* the packed uint32 values the backend stores in them
PixIdx == {0, WIDTH * HEIGHT - 1}
Palette == {U32(0, 0), U32(1, 2147483647)}
\* the frames the ROM renders: the tracked pixels all dark, or all bright
Frames == {[i \in PixIdx |-> c] : c \in Palette}

\* what the ROM does in one frame: the frame it renders, the points it adds
\* to the score, whether the game ends in it
RomSteps == [frame : Frames, gain : {0, 1}, over : BOOLEAN]
\* the buttons the caller passes to set_key_state
TestKeys == {"Up", "Start"}
\* two Sessions side by side run a ROM with two kinds of frame, a dark one
\* in which nothing happens and a bright one that scores and ends the game,
\* and the caller uses one button
PairRomSteps ==
    {r \in RomSteps : r.gain = (IF r.over THEN 1 ELSE 0) /\ r.frame[0].top = r.gain}
PairKeys == {"Start"}
\* ... and stores the bright value in the first pixel of an array
PairPixIdx == {0}
PairInk == {U32(1, 2147483647)}
BlankFrame == [i \in PixIdx |-> U32(0, 0)]

VARIABLES
    ref,      \* ref[s]: life of the Python object: "none", "held" (the caller
              \* has a reference), "dropped" (unreferenced, finalizer pending),
              \* "finalized"
    obj,      \* obj[s]: self.__obj
    view,     \* view[s]: the ndarray the caller keeps from get_pixels, or NoView
    live,     \* backend: the handles of the instances that exist
    inst,     \* backend: inst[h], the state of instance h
    calls,    \* the backend calls the last operation made, in order
    out,      \* the last operation: its name, its object, the episode state of
              \* the object when it was called, what it returned or raised
    created,  \* history: initialize_environment returned an instance for object s
    started,  \* history: object s forwarded a start_episode to its instance
    nDestroy, \* history: destroy_environment calls made by object s
    nRun,     \* history: run_frame calls that returned on object s since its
              \* instance was created or start_episode was forwarded
    keyOps,   \* history: set_key_state calls so far
    ub        \* the backend was handed a pointer that is not a live instance

vars == <<ref, obj, view, live, inst, calls, out, created, started, nDestroy, nRun, keyOps, ub>>

NoView == [ptr |-> NULL, count |-> 0, signed |-> FALSE, writeable |-> FALSE, copy |-> BlankFrame]
\* a backend call: its function and handle argument; for set_key_state the
\* button and pressed arguments; the pointer or status it returned
Call(fn, arg) ==
    [fn |-> fn, arg |-> arg, key |-> None, pressed |-> FALSE, ptr |-> NULL, status |-> 0]
(**************************** the backend **********************************)
\* a fresh instance: no episode started, all buttons released
NewInstance ==
    [running |-> FALSE, frames |-> 0, score |-> 0,
     latch |-> [k \in Keys |-> FALSE], pixels |-> BlankFrame]

\* initialize_environment: a new instance at a free address, or NULL
lib_initialize_environment(path) ==
    IF path \in ValidRoms THEN Handles \ live ELSE {NULL}

\* start_episode: fresh run, termination cleared; the latch and the last
\* rendered frame are left as they are
lib_start_episode(i) ==
    [i EXCEPT !.running = TRUE, !.frames = 0, !.score = 0]

\* run_frame: one frame, in which the ROM does `rom`
lib_run_frame(i, rom) ==
    [i EXCEPT !.frames = @ + 1,
              !.score = @ + rom.gain,
              !.pixels = rom.frame,
              !.running = @ /\ ~rom.over]

lib_set_key_state(i, key, pressed) ==
    [i EXCEPT !.latch[key] = pressed]

lib_is_running(i) == i.running
lib_get_score(i) == i.score
\* get_pixels: the address of the frame buffer of instance p, which is
\* inside the instance
lib_get_pixels(p) == p

(*************************** cffi and numpy ********************************)
\* cffi converts an argument declared `Environment *`: a cdata pointer
\* (NULL included) is passed on, anything else is a TypeError
IsCData(x) == x \in Handles \cup {NULL}

\* a test that lets every value through
NotNull_always(x) == TRUE

\* self.__obj != ffi.NULL: None is not cdata and compares unequal to NULL
NotNull(x) == x # NULL

\* ffi.buffer(ptr, size): the memory at ptr, exposed through the buffer
\* protocol as writable bytes, no copy
ffi_buffer(ptr, size) == [ptr |-> ptr, size |-> size, readonly |-> FALSE]

\* numpy.frombuffer(buffer, dtype="int32", count): an array over the
\* buffer's memory, writeable iff the buffer is
numpy_frombuffer(buffer, count) ==
    [ptr |-> buffer.ptr, count |-> count, signed |-> TRUE,
     writeable |-> ~buffer.readonly, copy |-> BlankFrame]

\* the 4 bytes of a pixel read as dtype int32
ToInt32(u) == IF u.top = 1 THEN u.low - 2147483647 - 1 ELSE u.low
\* an int32 stored through the view lands as these 4 bytes
FromInt32(v) == IF v < 0 THEN U32(1, v + 2147483647 + 1) ELSE U32(0, v)

\* what the caller reads in an array
Contents(v) ==
    IF v.ptr \in Handles
    THEN [i \in PixIdx |->
            IF v.signed THEN ToInt32(inst[v.ptr].pixels[i]) ELSE inst[v.ptr].pixels[i]]
    ELSE v.copy

(***************************** Environment *********************************)
\* where object s stands in the life of an episode: it has no live instance
\* ("dead"), no start_episode was forwarded yet ("fresh"), the backend
\* reports running ("running") or it reports not-running after a start ("over")
EpisodeState(s) ==
    IF obj[s] \notin live THEN "dead"
    ELSE IF ~started[s] THEN "fresh"
    ELSE IF lib_is_running(inst[obj[s]]) THEN "running"
    ELSE "over"

Returned(op, s, kind, val) ==
    [op |-> op, s |-> s, was |-> EpisodeState(s), kind |-> kind, val |-> val,
     again |-> FALSE]
Void(op, s) == Returned(op, s, "none", None)
Raised(op, s, err) == Returned(op, s, "raise", err)

Init ==
    /\ ref = [s \in Sessions |-> "none"]
    /\ obj = [s \in Sessions |-> None]
    /\ view = [s \in Sessions |-> NoView]
    /\ live = {}
    /\ inst = [h \in Handles |-> NewInstance]
    /\ calls = <<>>
    /\ out = [op |-> "none", s |-> "none", was |-> "dead", kind |-> "none", val |-> None,
              again |-> FALSE]
    /\ created = [s \in Sessions |-> FALSE]
    /\ started = [s \in Sessions |-> FALSE]
    /\ nDestroy = [s \in Sessions |-> 0]
    /\ nRun = [s \in Sessions |-> 0]
    /\ keyOps = 0
    /\ ub = FALSE

\* the histories of a new object
Fresh(s, p) ==
    /\ created' = [created EXCEPT ![s] = (p # NULL)]
    /\ started' = [started EXCEPT ![s] = FALSE]
    /\ nDestroy' = [nDestroy EXCEPT ![s] = 0]
    /\ nRun' = [nRun EXCEPT ![s] = 0]
    /\ view' = [view EXCEPT ![s] = NoView]

\* __init__ without lines 50-51
Environment_init_unchecked(s, path) ==
    /\ ref[s] \in {"none", "finalized"}
    /\ \E p \in lib_initialize_environment(path) :
        /\ obj' = [obj EXCEPT ![s] = p]
        /\ calls' = <<[Call("initialize_environment", path) EXCEPT !.ptr = p]>>
        /\ out' = Void("Environment_init", s)
        /\ ref' = [ref EXCEPT ![s] = "held"]
        /\ live' = live \cup ({p} \ {NULL})
        /\ inst' = [h \in Handles |-> IF h = p THEN NewInstance ELSE inst[h]]
        /\ Fresh(s, p)
    /\ UNCHANGED <<keyOps, ub>>

\* __init__ that also starts the first episode
Environment_init_started(s, path) ==
    /\ ref[s] \in {"none", "finalized"}
    /\ \E p \in lib_initialize_environment(path) :
        /\ obj' = [obj EXCEPT ![s] = p]
        /\ Fresh(s, p)
        /\ IF p = NULL
           THEN /\ out' = Raised("Environment_init", s, InitializationError)
                /\ calls' = <<[Call("initialize_environment", path) EXCEPT !.ptr = p]>>
                /\ ref' = [ref EXCEPT ![s] = "dropped"]
                /\ UNCHANGED <<live, inst>>
           ELSE /\ out' = Void("Environment_init", s)
                /\ calls' = <<[Call("initialize_environment", path) EXCEPT !.ptr = p],
                              Call("start_episode", p)>>
                /\ ref' = [ref EXCEPT ![s] = "held"]
                /\ live' = live \cup {p}
                /\ inst' = [inst EXCEPT ![p] = lib_start_episode(NewInstance)]
    /\ UNCHANGED <<keyOps, ub>>

\* Environment(rom_path): __init__ on a new object.  When __init__ raises, the
\* caller's name is never bound and the object is left to the finalizer.
Environment_init(s, path) ==
    /\ ref[s] \in {"none", "finalized"}
    /\ \E p \in lib_initialize_environment(path) :
        /\ obj' = [obj EXCEPT ![s] = p]
        /\ calls' = <<[Call("initialize_environment", path) EXCEPT !.ptr = p]>>
        /\ Fresh(s, p)
        /\ IF p = NULL
           THEN /\ out' = Raised("Environment_init", s, InitializationError)
                /\ ref' = [ref EXCEPT ![s] = "dropped"]
                /\ UNCHANGED <<live, inst>>
           ELSE /\ out' = Void("Environment_init", s)
                /\ ref' = [ref EXCEPT ![s] = "held"]
                /\ live' = live \cup {p}
                /\ inst' = [inst EXCEPT ![p] = NewInstance]
    /\ UNCHANGED <<keyOps, ub>>

\* the body of __del__; it raises (out of line 56) when self.__obj is None
del_raises(s) == NotNull(obj[s]) /\ ~IsCData(obj[s])

\* destroy_environment(p) as the backend sees it
Destroy(s, p) ==
    /\ calls' = <<Call("destroy_environment", p)>>
    /\ nDestroy' = [nDestroy EXCEPT ![s] = @ + 1]
    /\ IF p \in live
       THEN /\ live' = live \ {p}
            /\ inst' = [inst EXCEPT ![p] = NewInstance]
            /\ UNCHANGED ub
       ELSE /\ ub' = TRUE
            /\ UNCHANGED <<live, inst>>

\* __del__ with line 57 writing ffi.NULL
del_body_null(s) ==
    IF NotNull(obj[s])
    THEN IF ~IsCData(obj[s])
         THEN /\ calls' = <<>>
              /\ UNCHANGED <<obj, live, inst, nDestroy, ub>>
         ELSE /\ Destroy(s, obj[s])
              /\ obj' = [obj EXCEPT ![s] = NULL]
    ELSE /\ calls' = <<>>
         /\ obj' = [obj EXCEPT ![s] = NULL]
         /\ UNCHANGED <<live, inst, nDestroy, ub>>

\* __del__ without line 57
del_body_keep(s) ==
    IF NotNull(obj[s])
    THEN IF ~IsCData(obj[s])
         THEN /\ calls' = <<>>
              /\ UNCHANGED <<obj, live, inst, nDestroy, ub>>
         ELSE /\ Destroy(s, obj[s])
              /\ UNCHANGED obj
    ELSE /\ calls' = <<>>
         /\ UNCHANGED <<obj, live, inst, nDestroy, ub>>

\* __del__ without lines 55-56
del_body_leak(s) ==
    /\ calls' = <<>>
    /\ obj' = [obj EXCEPT ![s] = None]
    /\ UNCHANGED <<live, inst, nDestroy, ub>>

del_body(s) ==
    IF NotNull(obj[s])
    THEN IF ~IsCData(obj[s])
         THEN /\ calls' = <<>>
              /\ UNCHANGED <<obj, live, inst, nDestroy, ub>>
         ELSE /\ Destroy(s, obj[s])
              /\ obj' = [obj EXCEPT ![s] = None]
    ELSE /\ calls' = <<>>
         /\ obj' = [obj EXCEPT ![s] = None]
         /\ UNCHANGED <<live, inst, nDestroy, ub>>

\* the instance of s is gone (or s never had one): an array over its frame
\* buffer is no longer followed, and the histories of the instance end
Forget(s) ==
    /\ view' = [view EXCEPT ![s] = NoView]
    /\ nRun' = [nRun EXCEPT ![s] = 0]
    /\ started' = [started EXCEPT ![s] = FALSE]

\* env.__del__() called by the caller
Environment_del(s) ==
    /\ ref[s] = "held"
    /\ out' = IF del_raises(s) THEN Raised("Environment_del", s, TypeError)
                               ELSE Void("Environment_del", s)
    /\ del_body(s)
    /\ Forget(s)
    /\ UNCHANGED <<ref, created, keyOps>>

\* the caller gives up its last reference to the object, and the array it
\* got from it
Release(s) ==
    /\ ref[s] = "held"
    /\ ref' = [ref EXCEPT ![s] = "dropped"]
    /\ view' = [view EXCEPT ![s] = NoView]
    /\ calls' = <<>>
    /\ out' = Void("Release", s)
    /\ UNCHANGED <<obj, live, inst, created, started, nDestroy, nRun, keyOps, ub>>

\* a finalizer that does not run __del__
Finalize_skip(s) ==
    /\ ref[s] = "dropped"
    /\ ref' = [ref EXCEPT ![s] = "finalized"]
    /\ out' = Void("Finalize", s)
    /\ calls' = <<>>
    /\ Forget(s)
    /\ UNCHANGED <<obj, live, inst, nDestroy, ub, created, keyOps>>

\* the interpreter runs __del__ on the unreferenced object; what it raises
\* is not propagated
Finalize(s) ==
    /\ ref[s] = "dropped"
    /\ ref' = [ref EXCEPT ![s] = "finalized"]
    /\ out' = Void("Finalize", s)
    /\ del_body(s)
    /\ Forget(s)
    /\ UNCHANGED <<created, keyOps>>

\* start_episode that forwards nothing
start_episode_noop(s) ==
    /\ ref[s] = "held"
    /\ out' = Void("start_episode", s)
    /\ calls' = <<>>
    /\ UNCHANGED <<ref, obj, view, live, inst, created, started, nDestroy, nRun, keyOps, ub>>

\* start_episode that raises on a status other than 0
start_episode_checked(s) ==
    /\ ref[s] = "held"
    /\ IF ~IsCData(obj[s])
       THEN /\ out' = Raised("start_episode", s, TypeError)
            /\ calls' = <<>>
            /\ UNCHANGED <<inst, started, nRun, ub>>
       ELSE /\ started' = [started EXCEPT ![s] = TRUE]
            /\ nRun' = [nRun EXCEPT ![s] = 0]
            /\ \E status \in StatusCodes :
                  /\ calls' = <<[Call("start_episode", obj[s]) EXCEPT !.status = status]>>
                  /\ out' = IF status = 0 THEN Void("start_episode", s)
                            ELSE Raised("start_episode", s, "Exception: start_episode failed")
            /\ IF obj[s] \in live
               THEN /\ inst' = [inst EXCEPT ![obj[s]] = lib_start_episode(@)]
                    /\ UNCHANGED ub
               ELSE /\ ub' = TRUE
                    /\ UNCHANGED inst
    /\ UNCHANGED <<ref, obj, view, live, created, nDestroy, keyOps>>

start_episode(s) ==
    /\ ref[s] = "held"
    /\ IF ~IsCData(obj[s])
       THEN /\ out' = Raised("start_episode", s, TypeError)
            /\ calls' = <<>>
            /\ UNCHANGED <<inst, started, nRun, ub>>
       ELSE /\ out' = Void("start_episode", s)
            /\ started' = [started EXCEPT ![s] = TRUE]
            /\ nRun' = [nRun EXCEPT ![s] = 0]
            /\ \E status \in StatusCodes :
                  calls' = <<[Call("start_episode", obj[s]) EXCEPT !.status = status]>>
            /\ IF obj[s] \in live
               THEN /\ inst' = [inst EXCEPT ![obj[s]] = lib_start_episode(@)]
                    /\ UNCHANGED ub
               ELSE /\ ub' = TRUE
                    /\ UNCHANGED inst
    /\ UNCHANGED <<ref, obj, view, live, created, nDestroy, keyOps>>

\* run_frame that forwards two frames in one call
run_frame_twice(s, rom) ==
    /\ ref[s] = "held"
    /\ IF ~IsCData(obj[s])
       THEN /\ out' = Raised("run_frame", s, TypeError)
            /\ calls' = <<>>
            /\ UNCHANGED <<inst, nRun, ub>>
       ELSE /\ out' = Void("run_frame", s)
            /\ nRun' = [nRun EXCEPT ![s] = @ + 1]
            /\ calls' = <<Call("run_frame", obj[s]), Call("run_frame", obj[s])>>
            /\ IF obj[s] \in live
               THEN /\ inst' = [inst EXCEPT ![obj[s]] = lib_run_frame(lib_run_frame(@, rom), rom)]
                    /\ UNCHANGED ub
               ELSE /\ ub' = TRUE
                    /\ UNCHANGED inst
    /\ UNCHANGED <<ref, obj, view, live, created, started, nDestroy, keyOps>>

\* run_frame that rejects the call once the backend reports not-running
run_frame_guarded(s, rom) ==
    /\ ref[s] = "held"
    /\ IF ~IsCData(obj[s])
       THEN /\ out' = Raised("run_frame", s, TypeError)
            /\ calls' = <<>>
            /\ UNCHANGED <<inst, nRun, ub>>
       ELSE IF obj[s] \in live /\ ~lib_is_running(inst[obj[s]])
            THEN /\ out' = Raised("run_frame", s, "Exception: episode is over")
                 /\ calls' = <<Call("is_running", obj[s])>>
                 /\ UNCHANGED <<inst, nRun, ub>>
            ELSE /\ out' = Void("run_frame", s)
                 /\ nRun' = [nRun EXCEPT ![s] = @ + 1]
                 /\ calls' = <<Call("is_running", obj[s]), Call("run_frame", obj[s])>>
                 /\ IF obj[s] \in live
                    THEN /\ inst' = [inst EXCEPT ![obj[s]] = lib_run_frame(@, rom)]
                         /\ UNCHANGED ub
                    ELSE /\ ub' = TRUE
                         /\ UNCHANGED inst
    /\ UNCHANGED <<ref, obj, view, live, created, started, nDestroy, keyOps>>

\* run_frame that releases every button once the frame has read them
run_frame_consuming(s, rom) ==
    /\ ref[s] = "held"
    /\ IF ~IsCData(obj[s])
       THEN /\ out' = Raised("run_frame", s, TypeError)
            /\ calls' = <<>>
            /\ UNCHANGED <<inst, nRun, ub>>
       ELSE /\ out' = Void("run_frame", s)
            /\ nRun' = [nRun EXCEPT ![s] = @ + 1]
            /\ calls' = <<Call("run_frame", obj[s])>>
            /\ IF obj[s] \in live
               THEN /\ inst' = [inst EXCEPT ![obj[s]] =
                                 [lib_run_frame(@, rom) EXCEPT !.latch = NewInstance.latch]]
                    /\ UNCHANGED ub
               ELSE /\ ub' = TRUE
                    /\ UNCHANGED inst
    /\ UNCHANGED <<ref, obj, view, live, created, started, nDestroy, keyOps>>

run_frame(s, rom) ==
    /\ ref[s] = "held"
    /\ IF ~IsCData(obj[s])
       THEN /\ out' = Raised("run_frame", s, TypeError)
            /\ calls' = <<>>
            /\ UNCHANGED <<inst, nRun, ub>>
       ELSE /\ out' = Void("run_frame", s)
            /\ nRun' = [nRun EXCEPT ![s] = @ + 1]
            /\ calls' = <<Call("run_frame", obj[s])>>
            /\ IF obj[s] \in live
               THEN /\ inst' = [inst EXCEPT ![obj[s]] = lib_run_frame(@, rom)]
                    /\ UNCHANGED ub
               ELSE /\ ub' = TRUE
                    /\ UNCHANGED inst
    /\ UNCHANGED <<ref, obj, view, live, created, started, nDestroy, keyOps>>

is_running(s) ==
    /\ ref[s] = "held"
    /\ IF ~IsCData(obj[s])
       THEN /\ out' = Raised("is_running", s, TypeError)
            /\ calls' = <<>>
            /\ UNCHANGED ub
       ELSE /\ calls' = <<Call("is_running", obj[s])>>
            /\ IF obj[s] \in live
               THEN /\ out' = Returned("is_running", s, "bool", lib_is_running(inst[obj[s]]))
                    /\ UNCHANGED ub
               ELSE /\ out' = Void("is_running", s)
                    /\ ub' = TRUE
    /\ UNCHANGED <<ref, obj, view, live, inst, created, started, nDestroy, nRun, keyOps>>

\* the backend call set_key_state makes
KeyCall(s, key, pressed) ==
    [Call("set_key_state", obj[s]) EXCEPT !.key = key, !.pressed = pressed]

\* out.again: this call repeats the call made just before it
SameAgain(s, key, pressed) ==
    /\ out.op = "set_key_state"
    /\ out.s = s
    /\ calls = <<KeyCall(s, key, pressed)>>

\* set_key_state that writes the state to every button
set_key_state_all(s, key, pressed) ==
    /\ ref[s] = "held"
    /\ keyOps' = keyOps + 1
    /\ IF ~IsCData(obj[s])
       THEN /\ out' = Raised("set_key_state", s, TypeError)
            /\ calls' = <<>>
            /\ UNCHANGED <<inst, ub>>
       ELSE /\ out' = [Void("set_key_state", s) EXCEPT !.again = SameAgain(s, key, pressed)]
            /\ calls' = <<KeyCall(s, key, pressed)>>
            /\ IF obj[s] \in live
               THEN /\ inst' = [inst EXCEPT ![obj[s]].latch = [k \in Keys |-> pressed]]
                    /\ UNCHANGED ub
               ELSE /\ ub' = TRUE
                    /\ UNCHANGED inst
    /\ UNCHANGED <<ref, obj, view, live, created, started, nDestroy, nRun>>

\* set_key_state whose press flips the button
set_key_state_toggle(s, key, pressed) ==
    /\ ref[s] = "held"
    /\ keyOps' = keyOps + 1
    /\ IF ~IsCData(obj[s])
       THEN /\ out' = Raised("set_key_state", s, TypeError)
            /\ calls' = <<>>
            /\ UNCHANGED <<inst, ub>>
       ELSE /\ out' = [Void("set_key_state", s) EXCEPT !.again = SameAgain(s, key, pressed)]
            /\ calls' = <<KeyCall(s, key, pressed)>>
            /\ IF obj[s] \in live
               THEN /\ inst' = [inst EXCEPT ![obj[s]] =
                                 lib_set_key_state(@, key, pressed /\ ~@.latch[key])]
                    /\ UNCHANGED ub
               ELSE /\ ub' = TRUE
                    /\ UNCHANGED inst
    /\ UNCHANGED <<ref, obj, view, live, created, started, nDestroy, nRun>>

\* set_key_state on a latch that all instances share
set_key_state_global(s, key, pressed) ==
    /\ ref[s] = "held"
    /\ keyOps' = keyOps + 1
    /\ IF ~IsCData(obj[s])
       THEN /\ out' = Raised("set_key_state", s, TypeError)
            /\ calls' = <<>>
            /\ UNCHANGED <<inst, ub>>
       ELSE /\ out' = [Void("set_key_state", s) EXCEPT !.again = SameAgain(s, key, pressed)]
            /\ calls' = <<KeyCall(s, key, pressed)>>
            /\ IF obj[s] \in live
               THEN /\ inst' = [h \in Handles |->
                                 IF h \in live THEN lib_set_key_state(inst[h], key, pressed)
                                 ELSE inst[h]]
                    /\ UNCHANGED ub
               ELSE /\ ub' = TRUE
                    /\ UNCHANGED inst
    /\ UNCHANGED <<ref, obj, view, live, created, started, nDestroy, nRun>>

set_key_state(s, key, pressed) ==
    /\ ref[s] = "held"
    /\ keyOps' = keyOps + 1
    /\ IF ~IsCData(obj[s])
       THEN /\ out' = Raised("set_key_state", s, TypeError)
            /\ calls' = <<>>
            /\ UNCHANGED <<inst, ub>>
       ELSE /\ out' = [Void("set_key_state", s) EXCEPT !.again = SameAgain(s, key, pressed)]
            /\ calls' = <<KeyCall(s, key, pressed)>>
            /\ IF obj[s] \in live
               THEN /\ inst' = [inst EXCEPT ![obj[s]] = lib_set_key_state(@, key, pressed)]
                    /\ UNCHANGED ub
               ELSE /\ ub' = TRUE
                    /\ UNCHANGED inst
    /\ UNCHANGED <<ref, obj, view, live, created, started, nDestroy, nRun>>

\* get_score that answers with the score of a new episode, read once
get_score_cached(s) ==
    /\ ref[s] = "held"
    /\ IF ~IsCData(obj[s])
       THEN /\ out' = Raised("get_score", s, TypeError)
            /\ calls' = <<>>
            /\ UNCHANGED ub
       ELSE /\ calls' = <<Call("get_score", obj[s])>>
            /\ IF obj[s] \in live
               THEN /\ out' = Returned("get_score", s, "int", lib_get_score(NewInstance))
                    /\ UNCHANGED ub
               ELSE /\ out' = Void("get_score", s)
                    /\ ub' = TRUE
    /\ UNCHANGED <<ref, obj, view, live, inst, created, started, nDestroy, nRun, keyOps>>

get_score(s) ==
    /\ ref[s] = "held"
    /\ IF ~IsCData(obj[s])
       THEN /\ out' = Raised("get_score", s, TypeError)
            /\ calls' = <<>>
            /\ UNCHANGED ub
       ELSE /\ calls' = <<Call("get_score", obj[s])>>
            /\ IF obj[s] \in live
               THEN /\ out' = Returned("get_score", s, "int", lib_get_score(inst[obj[s]]))
                    /\ UNCHANGED ub
               ELSE /\ out' = Void("get_score", s)
                    /\ ub' = TRUE
    /\ UNCHANGED <<ref, obj, view, live, inst, created, started, nDestroy, nRun, keyOps>>

\* get_pixels: the array is built over the pointer the backend returns (the
\* instance's one frame buffer); the caller keeps the array
get_pixels(s) ==
    /\ ref[s] = "held"
    /\ IF ~IsCData(obj[s])
       THEN /\ out' = Raised("get_pixels", s, TypeError)
            /\ calls' = <<>>
            /\ UNCHANGED <<view, ub>>
       ELSE /\ calls' = <<Call("get_pixels", obj[s])>>
            /\ out' = Returned("get_pixels", s, "ndarray", obj[s])
            /\ view' = [view EXCEPT ![s] =
                  numpy_frombuffer(ffi_buffer(lib_get_pixels(obj[s]), WIDTH * HEIGHT * 4),
                                   WIDTH * HEIGHT)]
            /\ ub' = (ub \/ obj[s] \notin live)
    /\ UNCHANGED <<ref, obj, live, inst, created, started, nDestroy, nRun, keyOps>>

\* the caller assigns to an element of the array it got from get_pixels,
\* while the Session it came from is live: view[i] = v
WriteView(s, i, v) ==
    /\ ref[s] = "held"
    /\ view[s] # NoView
    /\ view[s].ptr = obj[s]
    /\ obj[s] \in live
    /\ calls' = <<>>
    /\ IF view[s].writeable
       THEN /\ out' = Void("WriteView", s)
            /\ inst' = [inst EXCEPT ![obj[s]].pixels[i] = FromInt32(v)]
       ELSE /\ out' = Raised("WriteView", s, "ValueError: assignment destination is read-only")
            /\ UNCHANGED inst
    /\ UNCHANGED <<ref, obj, view, live, created, started, nDestroy, nRun, keyOps, ub>>

(* One Session: every operation of the class, the ROM free in each frame. *)
Next ==
    \/ \E s \in Solo, path \in RomPaths : Environment_init(s, path)
    \/ \E s \in Solo : Environment_del(s)
    \/ \E s \in Solo : Release(s)
    \/ \E s \in Solo : Finalize(s)
    \/ \E s \in Solo : start_episode(s)
    \/ \E s \in Solo, rom \in RomSteps : nRun[s] < MaxFrames /\ run_frame(s, rom)
    \/ \E s \in Solo : is_running(s)
    \/ \E s \in Solo, key \in TestKeys, pressed \in BOOLEAN :
          keyOps < MaxKeyOps /\ set_key_state(s, key, pressed)
    \/ \E s \in Solo : get_score(s)
    \/ \E s \in Solo : get_pixels(s)
    \/ \E s \in Solo, i \in PixIdx, u \in Palette : WriteView(s, i, ToInt32(u))

Spec == Init /\ [][Next]_vars

(* Two Sessions side by side, each with every operation of the class. *)
NextPair ==
    \/ \E s \in Sessions, path \in RomPaths : Environment_init(s, path)
    \/ \E s \in Sessions : Environment_del(s)
    \/ \E s \in Sessions : Release(s)
    \/ \E s \in Sessions : Finalize(s)
    \/ \E s \in Sessions : start_episode(s)
    \/ \E s \in Sessions, rom \in PairRomSteps : nRun[s] < PairFrames /\ run_frame(s, rom)
    \/ \E s \in Sessions : is_running(s)
    \/ \E s \in Sessions, key \in PairKeys, pressed \in BOOLEAN :
          keyOps < PairKeyOps /\ set_key_state(s, key, pressed)
    \/ \E s \in Sessions : get_score(s)
    \/ \E s \in Sessions : get_pixels(s)
    \/ \E s \in Sessions, i \in PairPixIdx, u \in PairInk : WriteView(s, i, ToInt32(u))

SpecPair == Init /\ [][NextPair]_vars

(* One Session, where the interpreter does not put off the finalizer of an
   unreferenced object for ever. *)
SpecScoped == Spec /\ \A s \in Solo : WF_vars(Finalize(s))

(******************************** claims ***********************************)
\* the operations a caller has on a Session besides construction and __del__
SessionOps ==
    {"start_episode", "run_frame", "is_running", "set_key_state", "get_score", "get_pixels"}

\* C1: when initialize_environment returns NULL, the construction raises the
\* initialization error and the caller is left without a reference to the
\* object: an object whose handle is NULL is never in the caller's hands, so
\* none of the six operations can be called on it.
C1_FailedConstructionRaises ==
    /\ \A s \in Sessions : obj[s] = NULL => ref[s] = "dropped"
    /\ (out.op = "Environment_init" /\ calls[1].ptr = NULL) =>
          /\ out.kind = "raise"
          /\ out.val = InitializationError
          /\ ref[out.s] = "dropped"

\* a construction has just failed while the other Session is live
C1_Witness ==
    /\ out.op = "Environment_init"
    /\ calls[1].ptr = NULL
    /\ \E t \in Sessions \ {out.s} : ref[t] = "held" /\ obj[t] \in live

\* C2: a construction for which the backend returns NULL leaves the set of
\* live instances and every instance as they were, and the finalizer that
\* runs on the failed object makes no backend call.
C2_FailedConstructionLeaksNothing ==
    [][ /\ (out'.op = "Environment_init" /\ calls'[1].ptr = NULL) =>
              (live' = live /\ inst' = inst)
        /\ \A s \in Sessions :
              (ref[s] = "dropped" /\ ref'[s] = "finalized" /\ ~created[s]) =>
                  (calls' = <<>> /\ live' = live /\ inst' = inst /\ ~ub')
      ]_vars

\* the finalizer has just run on a failed object while an instance is live
C2_Witness ==
    /\ out.op = "Finalize"
    /\ ~created[out.s]
    /\ ref[out.s] = "finalized"
    /\ live # {}

\* C3: once destroy_environment has been called for a Session, every later
\* start_episode, run_frame, is_running, set_key_state, get_score and
\* get_pixels on it raises before any backend call is made, and the backend
\* is left as it was.
C3_NoUseAfterDestroy ==
    [][ (out'.op \in SessionOps /\ nDestroy[out'.s] > 0) =>
            /\ calls' = <<>>
            /\ out'.kind = "raise"
            /\ live' = live
            /\ inst' = inst
            /\ ~ub'
      ]_vars

\* an operation has just been tried on a destroyed Session, next to a live one
C3_Witness ==
    /\ out.op \in SessionOps
    /\ out.kind = "raise"
    /\ nDestroy[out.s] = 1
    /\ live # {}

\* C4: destroy_environment is called at most once per object, never for an
\* object whose construction failed, exactly once by the time an object
\* that got an instance is finalized, and always with a handle that is a
\* live instance at the time of the call; until the call the instance stays
\* live.
C4_DestroyedExactlyOnce ==
    /\ [](\A s \in Sessions :
            /\ nDestroy[s] <= (IF created[s] THEN 1 ELSE 0)
            /\ (created[s] /\ ref[s] = "finalized") => nDestroy[s] = 1
            /\ (created[s] /\ nDestroy[s] = 0) => obj[s] \in live)
    /\ [][ \A i \in 1..Len(calls') :
              calls'[i].fn = "destroy_environment" => (calls'[i].arg \in live /\ ~ub')
         ]_vars

\* the automatic __del__ has just run after an explicit one did the
\* destroying: it made no backend call
C4_Witness ==
    /\ out.op = "Finalize"
    /\ calls = <<>>
    /\ created[out.s]
    /\ nDestroy[out.s] = 1
    /\ ref[out.s] = "finalized"

\* C5: on a live Session the backend has advanced exactly as many frames
\* since the instance was created or start_episode was called as run_frame
\* was called; a run_frame call makes the one backend call run_frame, and no
\* other operation makes it.
C5_OneAdvancePerRunFrame ==
    /\ \A s \in Sessions :
          (ref[s] = "held" /\ obj[s] \in live) => inst[obj[s]].frames = nRun[s]
    /\ (out.op = "run_frame" /\ out.kind # "raise") =>
          calls = <<Call("run_frame", obj[out.s])>>
    /\ out.op # "run_frame" => \A i \in 1..Len(calls) : calls[i].fn # "run_frame"

\* MaxFrames run_frame calls have been made in an episode
C5_Witness ==
    /\ out.op = "run_frame"
    /\ started[out.s]
    /\ nRun[out.s] = MaxFrames
    /\ inst[obj[out.s]].frames = MaxFrames

\* C6: a successful construction makes the one backend call
\* initialize_environment and leaves a live Session; until start_episode is
\* called on it the backend's running flag is false and is_running returns
\* False, whatever else is called.
C6_NotRunningBeforeStart ==
    /\ \A s \in Sessions :
          (ref[s] = "held" /\ obj[s] \in live /\ ~started[s]) =>
              ~lib_is_running(inst[obj[s]])
    /\ (out.op = "is_running" /\ out.was = "fresh") =>
          (out.kind = "bool" /\ out.val = FALSE)
    /\ (out.op = "Environment_init" /\ out.kind # "raise") =>
          /\ ref[out.s] = "held"
          /\ obj[out.s] \in live
          /\ ~started[out.s]
          /\ Len(calls) = 1

\* is_running has just returned False before any start_episode, after
\* frames were advanced and pixels read
C6_Witness ==
    /\ out.op = "is_running"
    /\ out.was = "fresh"
    /\ out.val = FALSE
    /\ nRun[out.s] > 0
    /\ view[out.s] # NoView

\* C7: start_episode on a live Session, whatever the state of its episode,
\* is forwarded to the backend and returns; afterwards the backend reports
\* running and the frame count of the episode is zero.
C7_StartEpisodeRestarts ==
    [][ (out'.op = "start_episode" /\ out'.was # "dead") =>
            /\ out'.kind = "none"
            /\ Len(calls') = 1
            /\ calls'[1].fn = "start_episode"
            /\ calls'[1].arg = obj[out'.s]
            /\ obj' = obj /\ ref' = ref /\ live' = live
            /\ lib_is_running(inst'[obj[out'.s]])
            /\ inst'[obj[out'.s]].frames = 0
            /\ nRun'[out'.s] = 0
      ]_vars

\* start_episode has just restarted an episode that was running, with
\* frames advanced in it
C7_Witness ==
    /\ out.op = "start_episode"
    /\ out.was = "running"
    /\ inst[obj[out.s]].pixels # BlankFrame
    /\ lib_is_running(inst[obj[out.s]])
    /\ inst[obj[out.s]].frames = 0

\* C8: run_frame on a live Session whose backend reports not-running is
\* forwarded to the backend and returns; the Session keeps its handle and
\* its instance stays live.
C8_RunFramePassesThrough ==
    [][ (out'.op = "run_frame" /\ out'.was \in {"fresh", "over"}) =>
            /\ out'.kind = "none"
            /\ calls' = <<Call("run_frame", obj[out'.s])>>
            /\ obj' = obj /\ ref' = ref /\ live' = live
            /\ inst'[obj[out'.s]].frames = inst[obj[out'.s]].frames + 1
      ]_vars

\* run_frame has just been forwarded after the backend ended the episode
C8_Witness ==
    /\ out.op = "run_frame"
    /\ out.was = "over"
    /\ out.kind = "none"
    /\ ref[out.s] = "held"
    /\ obj[out.s] \in live

\* what an array that get_pixels returns now shows
Shown(s) ==
    Contents(numpy_frombuffer(ffi_buffer(lib_get_pixels(obj[s]), WIDTH * HEIGHT * 4),
                              WIDTH * HEIGHT))

\* C9: on a live Session what get_pixels shows changes only in a run_frame
\* on that Session, and an array obtained earlier shows what get_pixels
\* shows now.
C9_SameSnapshotWithoutRunFrame ==
    /\ [][ \A s \in Sessions :
              ( /\ ref[s] = "held" /\ ref'[s] = "held"
                /\ obj[s] \in live /\ obj'[s] = obj[s]
                /\ ~(out'.op = "run_frame" /\ out'.s = s) ) =>
                  Shown(s)' = Shown(s)
         ]_vars
    /\ [](\A s \in Sessions :
              (view[s] # NoView /\ obj[s] \in live /\ view[s].ptr = obj[s]) =>
                  Contents(view[s]) = Shown(s))

\* C10: an array returned by get_pixels is not writeable, and the frame
\* buffer of a live instance changes only in run_frame and start_episode.
C10_ViewIsReadOnly ==
    /\ [](\A s \in Sessions : view[s] # NoView => ~view[s].writeable)
    /\ [][ \A h \in Handles :
              (h \in live /\ h \in live' /\ inst'[h].pixels # inst[h].pixels) =>
                  out'.op \in {"run_frame", "start_episode"}
         ]_vars
\* C11: set_key_state(key, pressed) on a live Session makes the one backend
\* call set_key_state with that button and state; the button's latched
\* state becomes `pressed`, and the other 7 buttons, the frame count, the
\* pixel buffer, the score and the running flag of the instance, every other
\* instance, the handle and the set of live instances are as they were.
C11_SetKeyStateWritesOneButton ==
    [][ (out'.op = "set_key_state" /\ out'.was # "dead") =>
            /\ out'.kind = "none"
            /\ Len(calls') = 1
            /\ calls'[1].fn = "set_key_state"
            /\ calls'[1].arg = obj[out'.s]
            /\ inst' = [inst EXCEPT
                          ![obj[out'.s]].latch[calls'[1].key] = calls'[1].pressed]
            /\ \A k \in Keys \ {calls'[1].key} :
                  inst'[obj[out'.s]].latch[k] = inst[obj[out'.s]].latch[k]
            /\ inst'[obj[out'.s]].frames = inst[obj[out'.s]].frames
            /\ inst'[obj[out'.s]].pixels = inst[obj[out'.s]].pixels
            /\ inst'[obj[out'.s]].score = inst[obj[out'.s]].score
            /\ inst'[obj[out'.s]].running = inst[obj[out'.s]].running
            /\ obj' = obj /\ ref' = ref /\ live' = live /\ nRun' = nRun
      ]_vars

\* a button has just been released in a running episode while another
\* button stays pressed, with frames advanced and points scored
C11_Witness ==
    /\ out.op = "set_key_state"
    /\ out.was = "running"
    /\ calls[1].key = "Up"
    /\ ~calls[1].pressed
    /\ ~inst[obj[out.s]].latch["Up"]
    /\ inst[obj[out.s]].latch["Start"]
    /\ inst[obj[out.s]].frames > 0
    /\ inst[obj[out.s]].score > 0
\* C12: a successful construction leaves every button of the new instance
\* released; run_frame leaves the latch as it found it; and the latched
\* state of a button of a live instance changes only in a set_key_state
\* call for that button on the Session that owns the instance.
C12_LatchIsLevelTriggered ==
    /\ [][ (out'.op = "Environment_init" /\ out'.kind # "raise") =>
              \A k \in Keys : ~inst'[obj'[out'.s]].latch[k]
         ]_vars
    /\ [][ (out'.op = "run_frame" /\ out'.was # "dead") =>
              /\ Len(calls') = 1
              /\ inst'[obj[out'.s]].frames = inst[obj[out'.s]].frames + 1
              /\ inst'[obj[out'.s]].latch = inst[obj[out'.s]].latch
         ]_vars
    /\ [][ \A h \in Handles, k \in Keys :
              (h \in live /\ h \in live' /\ inst'[h].latch[k] # inst[h].latch[k]) =>
                  /\ out'.op = "set_key_state"
                  /\ obj[out'.s] = h
                  /\ calls'[1].key = k
         ]_vars

\* a button pressed before the episode's frames is still latched after
\* MaxFrames of them
C12_Witness ==
    /\ out.op = "run_frame"
    /\ out.was = "running"
    /\ nRun[out.s] = MaxFrames
    /\ inst[obj[out.s]].frames = MaxFrames
    /\ inst[obj[out.s]].latch["Start"]
    /\ ~inst[obj[out.s]].latch["Up"]
\* C13: a set_key_state(key, pressed) call on a live Session that repeats
\* the call made just before it leaves the Session and the backend in the
\* state the first call left them in, so that is_running, get_score,
\* get_pixels and every frame advance give after two calls what they give
\* after one.
C13_SetKeyStateIdempotent ==
    [][ (out'.op = "set_key_state" /\ out'.again /\ out'.was # "dead") =>
            /\ calls' = calls
            /\ inst' = inst
            /\ obj' = obj /\ ref' = ref /\ live' = live /\ view' = view /\ ub' = ub
            /\ lib_is_running(inst'[obj[out'.s]]) = lib_is_running(inst[obj[out'.s]])
            /\ lib_get_score(inst'[obj[out'.s]]) = lib_get_score(inst[obj[out'.s]])
            /\ \A s \in Sessions : s = out'.s => Shown(s)' = Shown(s)
            /\ \A rom \in RomSteps :
                  lib_run_frame(inst'[obj[out'.s]], rom) = lib_run_frame(inst[obj[out'.s]], rom)
      ]_vars

\* a button has just been pressed a second time in a row in a running
\* episode
C13_Witness ==
    /\ out.op = "set_key_state"
    /\ out.again
    /\ out.was = "running"
    /\ calls[1].key = "Start"
    /\ calls[1].pressed
    /\ inst[obj[out.s]].latch["Start"]
\* the three queries of a Session
Queries == {"is_running", "get_score", "get_pixels"}

\* C14: is_running, get_score and get_pixels on a live Session each make
\* one backend call, of their own name, and leave the handle, the set of
\* live instances and every instance (latch, frame count, score, pixel
\* buffer, running flag) as they were; get_score returns the score the
\* backend holds at the call and is_running the flag it holds.
C14_QueriesHaveNoSideEffects ==
    [][ (out'.op \in Queries /\ out'.was # "dead") =>
            /\ calls' = <<Call(out'.op, obj[out'.s])>>
            /\ out'.kind # "raise"
            /\ inst' = inst
            /\ obj' = obj /\ ref' = ref /\ live' = live
            /\ started' = started /\ nRun' = nRun /\ ~ub'
            /\ out'.op = "get_score" => out'.val = lib_get_score(inst[obj[out'.s]])
            /\ out'.op = "is_running" => out'.val = lib_is_running(inst[obj[out'.s]])
      ]_vars

\* get_score has just returned the points scored in the episode's frames,
\* with a button latched
C14_Witness ==
    /\ out.op = "get_score"
    /\ out.kind = "int"
    /\ out.val = MaxFrames
    /\ inst[obj[out.s]].frames = MaxFrames
    /\ inst[obj[out.s]].latch["Start"]
\* C15: an operation on one Session (construction, start_episode,
\* run_frame, set_key_state, a query, a store through its array, __del__,
\* finalization) leaves every other live Session with its reference, its
\* handle, its array and its instance live, and that instance's latch,
\* frame count, score, pixel buffer and running flag as they were.
C15_SessionsAreIndependent ==
    [][ \A t \in Sessions :
          (out'.s # t /\ obj[t] \in live) =>
              /\ ref'[t] = ref[t]
              /\ obj'[t] = obj[t]
              /\ view'[t] = view[t]
              /\ obj[t] \in live'
              /\ inst'[obj[t]] = inst[obj[t]]
      ]_vars

\* a button has just been pressed on one Session while the other Session
\* is in a running episode with that button released
C15_Witness ==
    /\ out.op = "set_key_state"
    /\ out.kind = "none"
    /\ calls[1].pressed
    /\ inst[obj[out.s]].latch[calls[1].key]
    /\ \E t \in Sessions \ {out.s} :
          /\ ref[t] = "held"
          /\ obj[t] \in live
          /\ lib_is_running(inst[obj[t]])
          /\ ~inst[obj[t]].latch[calls[1].key]
\* the three states of a Session: its construction failed and it holds the
\* null handle; it holds the handle of a backend instance; its instance was
\* destroyed and it holds no handle
Uninitialized(s) == obj[s] = NULL /\ ~created[s] /\ nDestroy[s] = 0
Live(s) == obj[s] \in Handles /\ created[s] /\ nDestroy[s] = 0
Destroyed(s) == obj[s] = None /\ created[s] /\ nDestroy[s] = 1
\* the Environment objects that exist: referenced, or awaiting their finalizer
Exists(s) == ref[s] \in {"held", "dropped"}

\* C16: every Environment object that exists is in exactly one of the
\* states uninitialized, live and destroyed, and an uninitialized one is
\* never in the caller's hands; the handle of a
\* live Session is a live backend instance, no two Sessions hold the same
\* handle, and every live backend instance is the handle of a live Session.
C16_LifecycleInvariant ==
    /\ \A s \in Sessions :
          Exists(s) =>
              /\ Cardinality({st \in {"uninitialized", "live", "destroyed"} :
                      \/ st = "uninitialized" /\ Uninitialized(s)
                      \/ st = "live" /\ Live(s)
                      \/ st = "destroyed" /\ Destroyed(s)}) = 1
              /\ Uninitialized(s) => ref[s] = "dropped"
              /\ Live(s) => obj[s] \in live
    /\ \A s \in Sessions : \A t \in Sessions \ {s} :
          (Exists(s) /\ Exists(t) /\ Live(s) /\ Live(t)) => obj[s] # obj[t]
    /\ \A h \in live : \E s \in Sessions : Exists(s) /\ Live(s) /\ obj[s] = h
    /\ ~ub

\* one Session is destroyed and still referenced, the other is live and
\* holds the one live instance
C16_Witness ==
    \E s \in Sessions, t \in Sessions :
        /\ s # t
        /\ ref[s] = "held" /\ Destroyed(s)
        /\ ref[t] = "held" /\ Live(t)
        /\ live = {obj[t]}
        /\ out.op = "Environment_init" /\ out.s = t
\* C17: once the caller has given up its reference to an Environment
\* object, the object is eventually finalized, and then it holds no handle
\* and its destroy_environment call, if its construction got an instance,
\* has been made; a live backend instance whose Session is unreferenced is
\* eventually not live.  This holds when the finalizer is eventually run.
C17_EventuallyReleased ==
    /\ \A s \in Solo :
          (ref[s] = "dropped") ~>
              /\ ref[s] = "finalized"
              /\ obj[s] = None
              /\ nDestroy[s] = (IF created[s] THEN 1 ELSE 0)
    /\ \A h \in Handles :
          (h \in live /\ \E s \in Solo : obj[s] = h /\ ref[s] = "dropped") ~>
              (h \notin live)

\* the finalizer has just destroyed the instance of a Session whose last
\* reference was dropped in a running episode
C17_Witness ==
    /\ out.op = "Finalize"
    /\ out.was = "running"
    /\ Len(calls) = 1
    /\ calls[1].fn = "destroy_environment"
    /\ calls[1].arg \notin live
    /\ ref[out.s] = "finalized"
    /\ created[out.s]
    /\ nDestroy[out.s] = 1
    /\ live = {}
\* an int32 x and a uint32 u are the same number: x is at most 2^31 - 1, so
\* bit 31 of u is clear and x is its low 31 bits
SameNumber(x, u) == u.top = 0 /\ x = u.low

\* C18: every element of the array get_pixels returns is the same number
\* as the uint32 the backend holds at that index of its frame buffer.
C18_PixelsNumericallyEqual ==
    (out.op = "get_pixels" /\ out.kind = "ndarray" /\ obj[out.s] \in live) =>
        \A i \in PixIdx :
            SameNumber(Contents(view[out.s])[i], inst[obj[out.s]].pixels[i])

\* C19: start_episode on a live Session returns no value and raises
\* nothing whatever status the backend's start_episode returns, and leaves
\* the Session with its handle and its instance live.
C19_StartEpisodeStatusIgnored ==
    [][ (out'.op = "start_episode" /\ out'.was # "dead") =>
            /\ Len(calls') = 1
            /\ calls'[1].fn = "start_episode"
            /\ calls'[1].status \in StatusCodes
            /\ out'.kind = "none"
            /\ out'.val = None
            /\ ref' = ref /\ obj' = obj /\ live' = live
            /\ obj'[out'.s] \in live'
      ]_vars

\* start_episode has just returned after the backend answered with the
\* failure status, in a Session that had an episode running
C19_Witness ==
    /\ out.op = "start_episode"
    /\ out.was = "running"
    /\ calls[1].status = -1
    /\ out.kind = "none"
    /\ out.val = None
    /\ ref[out.s] = "held"
    /\ obj[out.s] \in live
====
